---- MODULE Spec2Model ----
(***************************************************************************)
(* Wave Function Collapse solver of packages/rust/src/wfc.rs.              *)
(*                                                                         *)
(* A possibility set is a HashSet<&TileConfig>: it is modelled as a set of *)
(* indices into tileset.tiles (a reference is an index of the Vec).  The   *)
(* grid is a function from <<x, y>> to possibility sets.                   *)
(***************************************************************************)
EXTENDS Integers, Sequences, FiniteSets, TLC

\* ------------------------------------------------------------------ bounds

\* Largest number of cells (width * height) of a grid.
MaxCells == 4

\* Largest number of tiles of a tileset.
MaxTiles == 3

\* Largest number of step() calls made after finished was set.
MaxExtraSteps == 1

\* ------------------------------------------------------------- tile data

\* Socket(Sock, Sock, Sock): the edge signatures the tilesets are built from.
SockZ == <<0, 0, 0>>
SockM == <<0, 1, 0>>
SockP == <<0, 0, 1>>
SockQ == <<1, 0, 0>>

\* TileConfig { image, sockets: (top, right, bottom, left) }
TileConfig(image, top, right, bottom, left) ==
    [image |-> image, sockets |-> <<top, right, bottom, left>>]

\* The tiles the tilesets are drawn from, in the order they are drawn in.  The
\* second and the first share an image and differ in their sockets; the last
\* is the first once more.
TilePool ==
    << TileConfig(1, SockZ, SockZ, SockZ, SockZ),
       TileConfig(1, SockM, SockZ, SockM, SockZ),
       TileConfig(2, SockZ, SockP, SockZ, SockQ),
       TileConfig(3, SockZ, SockM, SockZ, SockZ),
       TileConfig(4, SockQ, SockP, SockP, SockM),
       TileConfig(1, SockZ, SockZ, SockZ, SockZ) >>

RECURSIVE SubSeqs(_, _, _)
\* The subsequences, of length at most max, of the first n elements of pool.
SubSeqs(pool, n, max) ==
    IF n = 0 THEN { <<>> }
    ELSE LET shorter == SubSeqs(pool, n - 1, max)
         IN  shorter \cup { Append(s, pool[n]) : s \in { t \in shorter : Len(t) < max } }

\* Tileset.tiles: every Vec of at most MaxTiles tiles picked, in order, from
\* the pool.
Tilesets == SubSeqs(TilePool, Len(TilePool), MaxTiles)

Edges == <<"Top", "Right", "Bottom", "Left">>

\* usize::MAX, the value of 0usize - 1 when overflow checks are off.  TLC's
\* integers are 32 bits wide, so the largest of them stands for it; it is only
\* ever compared with 0 and with numbers of tiles.
UsizeMax == 2147483647

VARIABLES
    tiles,           \* Grid.tileset.tiles
    width,           \* Grid.options.width
    height,          \* Grid.options.height
    cells,           \* Grid.cells, as [<<x, y>> -> possibility set]
    finished,        \* Grid.finished
    overflowChecks,  \* the build: TRUE when arithmetic overflow panics
    panicked,        \* the thread has panicked
    steps,           \* step() calls made until finished was set
    extra,           \* step() calls made after finished was set
    last             \* the last operation and what it did

vars == <<tiles, width, height, cells, finished, overflowChecks, panicked,
          steps, extra, last>>

\* ------------------------------------------------------------------ Cell

\* impl PartialEq for TileConfig: equality is by image alone.
TileEq(a, b) == a.image = b.image

\* #[derive(Hash)] on TileConfig hashes image and sockets: two tiles are sure
\* to have the same hash only when both agree.
SameHashInput(a, b) == a.image = b.image /\ a.sockets = b.sockets

\* HashSet::insert of tiles[i] into the set s of indices: the possible sets.
\* An element equal to tiles[i] is found, and the insert dropped, when the
\* hashes agree; for an equal element with different sockets the hashes differ
\* and the lookup finds it only on a collision of the hash bits it compares.
HashInsert(ts, s, i) ==
    IF \E j \in s : SameHashInput(ts[j], ts[i]) THEN { s }
    ELSE IF \E j \in s : TileEq(ts[j], ts[i]) THEN { s, s \cup {i} }
    ELSE { s \cup {i} }

RECURSIVE FromIter(_, _)
\* HashSet::from_iter over the first n tiles: the possible sets.
FromIter(ts, n) ==
    IF n = 0 THEN { {} }
    ELSE UNION { HashInsert(ts, s, n) : s \in FromIter(ts, n - 1) }

\* Cell::new
CellNew(ts) == FromIter(ts, Len(ts))

\* connects_to() that pairs a tile's left side with the other's left side.
connects_to_wrong_side(config, other, edge) ==
    LET pair == CASE edge = "Top"    -> <<config.sockets[1], other.sockets[3]>>
                  [] edge = "Right"  -> <<config.sockets[2], other.sockets[4]>>
                  [] edge = "Bottom" -> <<config.sockets[3], other.sockets[1]>>
                  [] edge = "Left"   -> <<config.sockets[4], other.sockets[4]>>
        s == pair[1]
        o == pair[2]
    IN  s[1] = o[3] /\ s[2] = o[2] /\ s[3] = o[1]

\* connects_to() that compares the two sockets in the same reading direction.
connects_to_unmirrored(config, other, edge) ==
    LET pair == CASE edge = "Top"    -> <<config.sockets[1], other.sockets[3]>>
                  [] edge = "Right"  -> <<config.sockets[2], other.sockets[4]>>
                  [] edge = "Bottom" -> <<config.sockets[3], other.sockets[1]>>
                  [] edge = "Left"   -> <<config.sockets[4], other.sockets[2]>>
    IN  pair[1] = pair[2]

connects_to(config, other, edge) ==
    LET pair == CASE edge = "Top"    -> <<config.sockets[1], other.sockets[3]>>
                  [] edge = "Right"  -> <<config.sockets[2], other.sockets[4]>>
                  [] edge = "Bottom" -> <<config.sockets[3], other.sockets[1]>>
                  [] edge = "Left"   -> <<config.sockets[4], other.sockets[2]>>
        s == pair[1]
        o == pair[2]
    IN  s[1] = o[3] /\ s[2] = o[2] /\ s[3] = o[1]

\* self.possibilities.len() - 1 panics on an empty set under overflow checks.
EntropyPanics(poss) == overflowChecks /\ poss = {}

\* entropy() that forgets the `- 1`.
entropy_is_len(poss) == Cardinality(poss)

entropy(poss) ==
    IF poss = {} THEN UsizeMax ELSE Cardinality(poss) - 1

\* is_collapsed() that takes the entropy for the number of tiles.
is_collapsed_off_by_one(poss) == entropy(poss) = 1

is_collapsed(poss) == entropy(poss) = 0

\* constrain() without the early return on a collapsed cell.
constrain_collapsed_too(self, other_cell, edge) ==
    IF EntropyPanics(self)
    THEN [poss |-> self, changed |-> FALSE, panic |-> TRUE]
    ELSE LET unreachables ==
                 { p \in self :
                     ~ \E c \in other_cell : connects_to(tiles[p], tiles[c], edge) }
         IN  [poss |-> self \ unreachables,
              changed |-> unreachables # {},
              panic |-> FALSE]

\* constrain() that returns true for every cell it has looked at.
constrain_always_true(self, other_cell, edge) ==
    IF EntropyPanics(self)
    THEN [poss |-> self, changed |-> FALSE, panic |-> TRUE]
    ELSE IF is_collapsed(self)
    THEN [poss |-> self, changed |-> FALSE, panic |-> FALSE]
    ELSE LET unreachables ==
                 { p \in self :
                     ~ \E c \in other_cell : connects_to(tiles[p], tiles[c], edge) }
         IN  [poss |-> self \ unreachables,
              changed |-> TRUE,
              panic |-> FALSE]

\* Cell::constrain: [poss: the set left, changed: the value returned, panic]
constrain(self, other_cell, edge) ==
    IF EntropyPanics(self)
    THEN [poss |-> self, changed |-> FALSE, panic |-> TRUE]
    ELSE IF is_collapsed(self)
    THEN [poss |-> self, changed |-> FALSE, panic |-> FALSE]
    ELSE LET unreachables ==
                 { p \in self :
                     ~ \E c \in other_cell : connects_to(tiles[p], tiles[c], edge) }
         IN  [poss |-> self \ unreachables,
              changed |-> unreachables # {},
              panic |-> FALSE]

\* collapse() that draws from the whole tileset, not from the cell's own set.
collapse_from_tileset(poss) ==
    IF poss = {} THEN {} ELSE { {c} : c \in 1 .. Len(tiles) }

\* collapse() that leaves the set as it is.
collapse_keeps(poss) == IF poss = {} THEN {} ELSE { poss }

\* Cell::collapse: the possible sets left, one for each element choose() may
\* draw; none when the set is empty (choose() gives None and unwrap() panics).
collapse(poss) == { {c} : c \in poss }

\* ------------------------------------------------------------------ Grid

Pos == (0 .. width - 1) \X (0 .. height - 1)

\* Grid::get: whether (x, y) is a cell of the grid.
InGrid(x, y) == y >= 0 /\ y < height /\ x >= 0 /\ x < width

\* One `if cell.constrain(..) { constrained = true }` of the sweep's body.
ConstrainWith(acc, other_cell, edge) ==
    IF acc.panic THEN acc
    ELSE LET r == constrain(acc.poss, other_cell, edge)
         IN  [poss |-> r.poss, changed |-> acc.changed \/ r.changed, panic |-> r.panic]

\* The neighbour of (x, y) across an edge.
Neighbour(x, y, edge) ==
    CASE edge = "Top"    -> <<x, y - 1>>
      [] edge = "Right"  -> <<x + 1, y>>
      [] edge = "Bottom" -> <<x, y + 1>>
      [] edge = "Left"   -> <<x - 1, y>>

\* The guard of each `if let Some(..) = if .. { self.get(..) } else { None }`.
HasNeighbour(x, y, edge) ==
    CASE edge = "Top"    -> y > 0
      [] edge = "Right"  -> x < width - 1
      [] edge = "Bottom" -> y < height - 1
      [] edge = "Left"   -> x > 0

RECURSIVE ConstrainFrom(_, _, _, _, _)
\* The body of propagate's inner loop for the clone acc of cell (x, y) of
\* grid g, from the k-th of its four edges on.
ConstrainFrom(g, x, y, k, acc) ==
    IF k > 4 THEN acc
    ELSE IF HasNeighbour(x, y, Edges[k])
    THEN ConstrainFrom(g, x, y, k + 1,
                       ConstrainWith(acc, g[Neighbour(x, y, Edges[k])], Edges[k]))
    ELSE ConstrainFrom(g, x, y, k + 1, acc)

ConstrainCell(g, x, y) ==
    ConstrainFrom(g, x, y, 1, [poss |-> g[<<x, y>>], changed |-> FALSE, panic |-> FALSE])

RECURSIVE SweepFrom(_, _, _)
\* One pass of `for y .. for x ..` from the i-th cell in row-major order on.
SweepFrom(g, i, constrained) ==
    IF i >= width * height
    THEN [cells |-> g, constrained |-> constrained, panic |-> FALSE]
    ELSE LET x == i % width
             y == i \div width
             c == ConstrainCell(g, x, y)
         IN  IF c.panic
             THEN [cells |-> g, constrained |-> constrained, panic |-> TRUE]
             ELSE SweepFrom([g EXCEPT ![<<x, y>>] = c.poss], i + 1,
                            constrained \/ c.changed)

Sweep(g) == SweepFrom(g, 0, FALSE)

\* propagate() that sweeps the grid once, whatever the sweep constrained.
propagate_one_sweep(g) ==
    LET s == Sweep(g) IN [cells |-> s.cells, panic |-> s.panic]

RECURSIVE propagate(_)
\* Grid::propagate: [cells, panic]
propagate(g) ==
    LET s == Sweep(g)
    IN  IF s.panic THEN [cells |-> s.cells, panic |-> TRUE]
        ELSE IF ~ s.constrained THEN [cells |-> s.cells, panic |-> FALSE]
        ELSE propagate(s.cells)

RECURSIVE ScanFrom_last_tie(_, _, _, _, _)
\* The scan with `<=` for `<`: among cells of equal entropy the last one wins.
ScanFrom_last_tie(g, i, cell_x, cell_y, ent) ==
    IF i >= width * height
    THEN [x |-> cell_x, y |-> cell_y, panic |-> FALSE]
    ELSE LET x == i % width
             y == i \div width
             p == g[<<x, y>>]
         IN  IF EntropyPanics(p)
             THEN [x |-> cell_x, y |-> cell_y, panic |-> TRUE]
             ELSE IF is_collapsed(p)
             THEN ScanFrom_last_tie(g, i + 1, cell_x, cell_y, ent)
             ELSE IF entropy(p) <= ent
             THEN ScanFrom_last_tie(g, i + 1, x, y, entropy(p))
             ELSE ScanFrom_last_tie(g, i + 1, cell_x, cell_y, ent)

RECURSIVE ScanFrom(_, _, _, _, _)
\* The scan of next_lowest_entropy from the i-th cell in row-major order on.
ScanFrom(g, i, cell_x, cell_y, ent) ==
    IF i >= width * height
    THEN [x |-> cell_x, y |-> cell_y, panic |-> FALSE]
    ELSE LET x == i % width
             y == i \div width
             p == g[<<x, y>>]
         IN  IF EntropyPanics(p)
             THEN [x |-> cell_x, y |-> cell_y, panic |-> TRUE]
             ELSE IF is_collapsed(p) THEN ScanFrom(g, i + 1, cell_x, cell_y, ent)
             ELSE IF entropy(p) < ent THEN ScanFrom(g, i + 1, x, y, entropy(p))
             ELSE ScanFrom(g, i + 1, cell_x, cell_y, ent)

\* Grid::next_lowest_entropy: the position handed to get(), and whether the
\* scan panicked.
next_lowest_entropy(g) == ScanFrom(g, 0, 0, 0, Len(tiles))

\* ------------------------------------------------------------ the machine

\* The grid sizes of at most n cells, the empty ones among them.
Grids(n) == { wh \in (0 .. n) \X (0 .. n) : wh[1] * wh[2] <= n }

\* Model::new, Grid::new and Cell::new: a fresh grid over one of the tilesets.
New(tilesets, grids) ==
    /\ tiles \in tilesets
    /\ \E wh \in grids : width = wh[1] /\ height = wh[2]
    /\ cells \in [Pos -> CellNew(tiles)]
    /\ finished = FALSE
    /\ overflowChecks \in BOOLEAN
    /\ panicked = FALSE
    /\ steps = 0
    /\ extra = 0
    /\ last = [op |-> "new"]

Init == New(Tilesets, Grids(MaxCells))

\* step() that flips finished where it should set it.
Step_flips_finished ==
    /\ ~ panicked
    /\ finished => extra < MaxExtraSteps
    /\ steps' = IF finished THEN steps ELSE steps + 1
    /\ extra' = IF finished THEN extra + 1 ELSE extra
    /\ UNCHANGED <<tiles, width, height, overflowChecks>>
    /\ LET n == next_lowest_entropy(cells)
           stop(why) == /\ panicked' = TRUE
                        /\ UNCHANGED <<cells, finished>>
                        /\ last' = [op |-> "step", did |-> why, x |-> n.x, y |-> n.y]
       IN  IF n.panic THEN stop("entropy panic")
           ELSE IF ~ InGrid(n.x, n.y) THEN stop("unwrap panic")
           ELSE LET next == cells[<<n.x, n.y>>]
                IN  IF EntropyPanics(next) THEN stop("entropy panic")
                    ELSE IF is_collapsed(next)
                    THEN /\ finished' = ~ finished
                         /\ UNCHANGED <<cells, panicked>>
                         /\ last' = [op |-> "step", did |-> "finish", x |-> n.x, y |-> n.y]
                    ELSE IF collapse(next) = {} THEN stop("choose panic")
                    ELSE \E collapsed \in collapse(next) :
                           LET r == propagate([cells EXCEPT ![<<n.x, n.y>>] = collapsed])
                           IN  /\ cells' = r.cells
                               /\ panicked' = r.panic
                               /\ UNCHANGED finished
                               /\ last' = [op |-> "step", did |-> "collapse",
                                           x |-> n.x, y |-> n.y]

\* Grid::step, as called by Model::run's loop (and again once finished, up to
\* MaxExtraSteps times).
Step ==
    /\ ~ panicked
    /\ finished => extra < MaxExtraSteps
    /\ steps' = IF finished THEN steps ELSE steps + 1
    /\ extra' = IF finished THEN extra + 1 ELSE extra
    /\ UNCHANGED <<tiles, width, height, overflowChecks>>
    /\ LET n == next_lowest_entropy(cells)
           stop(why) == /\ panicked' = TRUE
                        /\ UNCHANGED <<cells, finished>>
                        /\ last' = [op |-> "step", did |-> why, x |-> n.x, y |-> n.y]
       IN  IF n.panic THEN stop("entropy panic")
           ELSE IF ~ InGrid(n.x, n.y) THEN stop("unwrap panic")
           ELSE LET next == cells[<<n.x, n.y>>]
                IN  IF EntropyPanics(next) THEN stop("entropy panic")
                    ELSE IF is_collapsed(next)
                    THEN /\ finished' = TRUE
                         /\ UNCHANGED <<cells, panicked>>
                         /\ last' = [op |-> "step", did |-> "finish", x |-> n.x, y |-> n.y]
                    ELSE IF collapse(next) = {} THEN stop("choose panic")
                    ELSE \E collapsed \in collapse(next) :
                           LET r == propagate([cells EXCEPT ![<<n.x, n.y>>] = collapsed])
                           IN  /\ cells' = r.cells
                               /\ panicked' = r.panic
                               /\ UNCHANGED finished
                               /\ last' = [op |-> "step", did |-> "collapse",
                                           x |-> n.x, y |-> n.y]

Next == Step

Spec == Init /\ [][Next]_vars

\* A call of step(), seen through the call counters alone: it can be made
\* exactly when Step can, and every Step is one.
StepCalled ==
    /\ ~ panicked
    /\ finished => extra < MaxExtraSteps
    /\ steps' = IF finished THEN steps ELSE steps + 1
    /\ extra' = IF finished THEN extra + 1 ELSE extra

\* Model::run's loop calls step() again as long as finished is unset: a call
\* of step() that can be made is made.
FairSpec == Spec /\ WF_<<steps, extra>>(StepCalled)

\* ------------------------------------------- the operations, called freely

\* Largest number of cells and of tiles when the operations of Cell and Grid
\* are called in any order.
OpsMaxCells == 2
OpsMaxTiles == 2

\* cell.constrain(neighbour, edge) on the cell at pos, as propagate calls it.
ConstrainAt(pos, edge) ==
    /\ ~ panicked
    /\ pos \in Pos
    /\ HasNeighbour(pos[1], pos[2], edge)
    /\ LET r == constrain(cells[pos], cells[Neighbour(pos[1], pos[2], edge)], edge)
       IN  /\ cells' = [cells EXCEPT ![pos] = r.poss]
           /\ panicked' = r.panic
    /\ last' = [op |-> "constrain"]
    /\ UNCHANGED <<tiles, width, height, finished, overflowChecks, steps, extra>>

Constrain == \E pos \in Pos, k \in 1 .. 4 : ConstrainAt(pos, Edges[k])

\* cell.collapse() on the cell at pos.
CollapseAt(pos) ==
    /\ ~ panicked
    /\ pos \in Pos
    /\ IF collapse(cells[pos]) = {}
       THEN panicked' = TRUE /\ UNCHANGED cells
       ELSE /\ \E collapsed \in collapse(cells[pos]) :
                 cells' = [cells EXCEPT ![pos] = collapsed]
            /\ UNCHANGED panicked
    /\ last' = [op |-> "collapse"]
    /\ UNCHANGED <<tiles, width, height, finished, overflowChecks, steps, extra>>

Collapse == \E pos \in Pos : CollapseAt(pos)

\* grid.propagate()
Propagate ==
    /\ ~ panicked
    /\ LET r == propagate(cells)
       IN  /\ cells' = r.cells
           /\ panicked' = r.panic
    /\ last' = [op |-> "propagate"]
    /\ UNCHANGED <<tiles, width, height, finished, overflowChecks, steps, extra>>

OpsInit == New(SubSeqs(TilePool, Len(TilePool), OpsMaxTiles), Grids(OpsMaxCells))

OpsNext == Step \/ Constrain \/ Collapse \/ Propagate

OpsSpec == OpsInit /\ [][OpsNext]_vars

\* The run of step() calls with propagate() called again at any time.
PropagateSpec == Init /\ [][Step \/ Propagate]_vars

\* --------------------------------------- the sweeps of propagate, reordered

\* The constrain calls of propagate() are about to be made in another order:
\* what propagate() itself returns from this grid is kept for comparison.
BeginSweeps ==
    /\ ~ panicked
    /\ last.op # "sweeps"
    /\ last' = [op |-> "sweeps", fixed |-> propagate(cells)]
    /\ UNCHANGED <<tiles, width, height, cells, finished, overflowChecks,
                   panicked, steps, extra>>

\* One constrain call of a sweep, on any cell against any of its neighbours.
SweepConstrain ==
    /\ ~ panicked
    /\ last.op = "sweeps"
    /\ \E pos \in Pos, k \in 1 .. 4 :
         /\ HasNeighbour(pos[1], pos[2], Edges[k])
         /\ LET r == constrain(cells[pos],
                               cells[Neighbour(pos[1], pos[2], Edges[k])], Edges[k])
            IN  /\ cells' = [cells EXCEPT ![pos] = r.poss]
                /\ panicked' = r.panic
    /\ UNCHANGED <<tiles, width, height, finished, overflowChecks, steps, extra, last>>

\* No constrain call of a sweep would remove a tile: the sweeps stop here.
SweepsDone ==
    \A pos \in Pos, k \in 1 .. 4 :
        HasNeighbour(pos[1], pos[2], Edges[k])
            => LET r == constrain(cells[pos],
                                  cells[Neighbour(pos[1], pos[2], Edges[k])], Edges[k])
               IN  ~ r.changed /\ ~ r.panic

AnyOrderNext ==
    \/ last.op # "sweeps" /\ Step
    \/ last.op # "sweeps" /\ Collapse
    \/ BeginSweeps
    \/ SweepConstrain

\* Largest number of cells and of tiles when the sweeps are reordered.
SweepMaxCells == 3
SweepMaxTiles == 2

AnyOrderInit ==
    New(SubSeqs(TilePool, Len(TilePool), SweepMaxTiles), Grids(SweepMaxCells))

\* A run of step() calls, or a collapse() on any cell, followed by the
\* constrain calls of propagate() made in any order.
AnyOrderSpec == AnyOrderInit /\ [][AnyOrderNext]_vars

\* ------------------------------------------------ connects_to on its own

Socks == { SockZ, SockM, SockP, SockQ }

\* Every tile whose four sockets are among Socks.
EdgeTiles ==
    { TileConfig(1, s[1], s[2], s[3], s[4]) : s \in Socks \X Socks \X Socks \X Socks }

\* Any two tiles, and no grid.
EdgeInit ==
    /\ tiles \in EdgeTiles \X EdgeTiles
    /\ width = 0
    /\ height = 0
    /\ cells = << >>
    /\ finished = FALSE
    /\ overflowChecks = FALSE
    /\ panicked = FALSE
    /\ steps = 0
    /\ extra = 0
    /\ last = [op |-> "new"]

\* Cell::connects_to(tiles[1], tiles[2], edge)
ConnectsTo ==
    /\ last.op = "new"
    /\ \E k \in 1 .. 4 :
         last' = [op |-> "connects_to", edge |-> Edges[k],
                  result |-> connects_to(tiles[1], tiles[2], Edges[k])]
    /\ UNCHANGED <<tiles, width, height, cells, finished, overflowChecks,
                   panicked, steps, extra>>

EdgeSpec == EdgeInit /\ [][ConnectsTo]_vars

\* ------------------------------------------------------------ the claims

\* The mirror-match rule: one signature read forward is the other read
\* backward.
MirrorMatch(s, o) == s[1] = o[3] /\ s[2] = o[2] /\ s[3] = o[1]

\* The side of a tile that faces a neighbour across an edge, and the side of
\* the neighbour that faces back.
Side(edge) ==
    CASE edge = "Top" -> 1 [] edge = "Right" -> 2 [] edge = "Bottom" -> 3 [] edge = "Left" -> 4

Opposite(edge) ==
    CASE edge = "Top" -> "Bottom" [] edge = "Right" -> "Left"
      [] edge = "Bottom" -> "Top" [] edge = "Left" -> "Right"

\* The tiles a possibility set refers to.
TilesOf(poss) == { tiles[i] : i \in poss }

\* No cell of the grid is empty.  Possibility sets never grow, so this says
\* that none has ever been.
NoEmptyCell == \A pos \in Pos : cells[pos] # {}

\* The tileset's images are pairwise different.
DistinctImages ==
    \A i, j \in 1 .. Len(tiles) : i # j => tiles[i].image # tiles[j].image

\* The tiles of the cell at pos and of its neighbour across an edge
\* mirror-match on the sides they share.
Compatible(pos, edge) ==
    \A a \in cells[pos], b \in cells[Neighbour(pos[1], pos[2], edge)] :
        MirrorMatch(tiles[a].sockets[Side(edge)],
                    tiles[b].sockets[Side(Opposite(edge))])

\* C1: whenever run() ends with finished set, the tile left in each cell and
\* the tile left in each of its neighbours mirror-match across their shared edge.
C1_FinishedGridIsCompatible ==
    finished =>
        \A pos \in Pos, k \in 1 .. 4 :
            HasNeighbour(pos[1], pos[2], Edges[k]) => Compatible(pos, Edges[k])

\* C2: whenever finished is set, every cell holds exactly one tile.
C2_FinishedAllCollapsed ==
    finished => \A pos \in Pos : Cardinality(cells[pos]) = 1

\* C3, as claimed: on a grid of at least 1x1 no cell of which ever becomes
\* empty, finished is set once width * height calls of step() have been made.
C3_FinishedWithinCells ==
    (width >= 1 /\ height >= 1 /\ NoEmptyCell /\ steps >= width * height)
        => finished

\* C3, amended: on a grid of at least 1x1 no cell of which ever becomes empty,
\* finished is set once width * height + 1 calls of step() have been made.
C3_FinishedWithinCellsPlusOne ==
    (width >= 1 /\ height >= 1 /\ NoEmptyCell /\ steps >= width * height + 1)
        => finished

\* The bound of C3 is met: a run that needed every one of its calls.
C3_Witness ==
    /\ width * height >= 2
    /\ NoEmptyCell
    /\ finished
    /\ steps = width * height + 1

\* C4: no operation ever adds a tile to a cell: each cell's possibility set
\* after constrain, collapse, propagate or step is a subset of its set before,
\* and never larger than the tileset.
C4_PossibilitiesOnlyShrink ==
    [][\A pos \in Pos : /\ cells'[pos] \subseteq cells[pos]
                        /\ Cardinality(cells'[pos]) <= Len(tiles)]_vars

\* A cell that constrain has left with fewer tiles than it started with.
C4_Witness ==
    /\ last.op = "constrain"
    /\ DistinctImages
    /\ \E q \in Pos : cells[q] # {} /\ cells[q] # 1 .. Len(tiles)

\* C5: propagate() called again right after propagate() has returned changes
\* no cell.
C5_PropagateIdempotent ==
    [][(last.op = "propagate" /\ last'.op = "propagate")
           => (cells' = cells /\ ~ panicked')]_vars

\* propagate() has returned, having removed tiles from a fresh grid.
C5_Witness ==
    /\ last.op = "propagate"
    /\ ~ panicked
    /\ steps = 0
    /\ DistinctImages
    /\ \E q \in Pos : Cardinality(cells[q]) >= 2 /\ cells[q] # 1 .. Len(tiles)

\* C6: collapse() on a non-empty cell leaves exactly one tile, collapsed, and
\* that tile was in the cell before.
C6_CollapseLeavesOneOfTheCell ==
    [][\A pos \in Pos :
          (CollapseAt(pos) /\ cells[pos] # {})
              => /\ Cardinality(cells'[pos]) = 1
                 /\ is_collapsed(cells'[pos])
                 /\ cells'[pos] \subseteq cells[pos]
                 /\ ~ panicked']_vars

\* collapse() has reduced the two tiles of the only cell of a grid to one.
C6_Witness ==
    /\ last.op = "collapse"
    /\ width = 1 /\ height = 1
    /\ steps = 0
    /\ Len(tiles) = 2 /\ DistinctImages
    /\ Cardinality(cells[<<0, 0>>]) = 1

\* C7: connects_to(A, B, edge) is connects_to(B, A, the opposite edge): Right
\* against Left and Top against Bottom.
C7_ConnectsToSymmetric ==
    last.op = "connects_to"
        => last.result = connects_to(tiles[2], tiles[1], Opposite(last.edge))

\* Two tiles that connect through signatures that are not their own mirror
\* images.
C7_Witness ==
    /\ last.op = "connects_to"
    /\ last.edge = "Right"
    /\ last.result
    /\ tiles[1].sockets[2] = SockP
    /\ tiles[2].sockets[2] # SockP

\* tiles[j] is the only tile whose Left signature mirror-matches the Right
\* signature of tiles[i].
OnlyLeftMatch(i, j) ==
    \A k \in 1 .. Len(tiles) :
        MirrorMatch(tiles[k].sockets[4], tiles[i].sockets[2]) <=> tiles[k] = tiles[j]

\* C8: on a 2x1 grid, the step that collapses the left cell to A while the
\* right cell holds the whole tileset leaves the right cell holding exactly B,
\* when B is the only tile whose Left mirror-matches A's Right.
C8_RightCellBecomesB ==
    [][(/\ width = 2 /\ height = 1
        /\ TilesOf(cells[<<1, 0>>]) = TilesOf(1 .. Len(tiles))
        /\ last'.op = "step" /\ last'.did = "collapse"
        /\ last'.x = 0 /\ last'.y = 0)
          => \A i, j \in 1 .. Len(tiles) :
                 (cells'[<<0, 0>>] = {i} /\ OnlyLeftMatch(i, j))
                     => (TilesOf(cells'[<<1, 0>>]) = {tiles[j]} /\ ~ panicked')]_vars

\* The left cell collapsed to A and the right cell reduced from three tiles to
\* B, another tile.
C8_Witness ==
    /\ width = 2 /\ height = 1
    /\ steps = 1
    /\ last.op = "step" /\ last.did = "collapse"
    /\ Len(tiles) = 3 /\ DistinctImages
    /\ \E i, j \in 1 .. 3 : /\ i # j
                             /\ OnlyLeftMatch(i, j)
                             /\ cells[<<0, 0>>] = {i}
                             /\ cells[<<1, 0>>] = {j}

\* C9: on a 1x1 grid over three tiles the first step() collapses the cell to
\* one of them and leaves finished unset, and the second changes no cell and
\* sets finished; in general a step() that collapses a cell does not set
\* finished.
C9_LastCollapseDoesNotFinish ==
    [][/\ (width = 1 /\ height = 1 /\ Len(tiles) = 3 /\ DistinctImages)
          => /\ steps = 0 => /\ Cardinality(cells'[<<0, 0>>]) = 1
                             /\ cells'[<<0, 0>>] \subseteq 1 .. 3
                             /\ ~ finished'
                             /\ ~ panicked'
             /\ steps = 1 => /\ cells' = cells
                             /\ finished'
                             /\ ~ panicked'
       /\ (last'.op = "step" /\ last'.did = "collapse") => ~ finished']_vars

\* The second step() on a 1x1 grid over three tiles has set finished.
C9_Witness ==
    /\ width = 1 /\ height = 1
    /\ Len(tiles) = 3 /\ DistinctImages
    /\ steps = 2
    /\ finished
    /\ cells[<<0, 0>>] = {3}

\* C10: a freshly constructed cell counts the tiles that share an image once:
\* its size is the number of distinct images of the tileset.
C10_FreshCellCountsImages ==
    last.op = "new"
        => \A pos \in Pos :
               Cardinality(cells[pos])
                   = Cardinality({ tiles[i].image : i \in 1 .. Len(tiles) })

\* Every tile of the cell at pos has, in the neighbour across an edge, a tile
\* that mirror-matches it on the sides they share.
Supported(pos, edge) ==
    \A a \in cells[pos] :
        \E b \in cells[Neighbour(pos[1], pos[2], edge)] :
            MirrorMatch(tiles[a].sockets[Side(edge)],
                        tiles[b].sockets[Side(Opposite(edge))])

\* The grid is arc-consistent: every cell is supported by each of the
\* neighbours it has.
ArcConsistent ==
    \A pos \in Pos, k \in 1 .. 4 :
        HasNeighbour(pos[1], pos[2], Edges[k]) => Supported(pos, Edges[k])

\* C11: when propagate() has returned, every tile of every cell, collapsed or
\* not, has a mirror-matching tile in each neighbour the cell has.
C11_PropagateLeavesArcConsistent ==
    (last.op = "propagate" /\ ~ panicked) => ArcConsistent

\* C12: constrain calls made in any order until none removes a tile leave every
\* cell with the set that propagate(), sweeping row by row and Top, Right,
\* Bottom, Left, leaves it with.
C12_AnyOrderSameFixedPoint ==
    (last.op = "sweeps" /\ ~ panicked /\ ~ last.fixed.panic /\ SweepsDone)
        => cells = last.fixed.cells

\* The cells that hold two tiles or more.
Uncollapsed == { pos \in Pos : Cardinality(cells[pos]) >= 2 }

\* The place of a cell in row-major order: lowest y first, then lowest x.
RowMajor(pos) == pos[2] * width + pos[1]

\* The cell of Uncollapsed with the fewest tiles, the first in row-major order
\* among those that have as few.
LowestEntropy ==
    CHOOSE p \in Uncollapsed :
        \A q \in Uncollapsed :
            \/ Cardinality(cells[p]) < Cardinality(cells[q])
            \/ /\ Cardinality(cells[p]) = Cardinality(cells[q])
               /\ RowMajor(p) <= RowMajor(q)

\* C13: whenever some cell holds two tiles or more, the cell step() takes from
\* next_lowest_entropy() is the one with the fewest tiles among the cells of two
\* tiles or more, the first of them in row-major order when several have as
\* few; step() collapses that cell to one of its tiles, and every other cell is
\* left as propagate() leaves it after that one collapse.
C13_StepCollapsesLowestEntropy ==
    [][(Uncollapsed # {} /\ last'.op = "step")
          => /\ next_lowest_entropy(cells)
                  = [x |-> LowestEntropy[1], y |-> LowestEntropy[2], panic |-> FALSE]
             /\ last'.did = "collapse"
             /\ <<last'.x, last'.y>> = LowestEntropy
             /\ \E c \in cells[LowestEntropy] :
                  LET r == propagate([cells EXCEPT ![LowestEntropy] = {c}])
                  IN  cells' = r.cells /\ panicked' = r.panic]_vars

\* step() has collapsed a cell and passed over one before it in row-major
\* order that still holds two tiles or more.
C13_Witness ==
    /\ last.op = "step" /\ last.did = "collapse"
    /\ ~ panicked
    /\ Cardinality(cells[<<last.x, last.y>>]) = 1
    /\ \E q \in Uncollapsed : RowMajor(q) < RowMajor(<<last.x, last.y>>)

\* C14: a cell that holds exactly one tile keeps it through every constrain,
\* collapse, propagate and step, and constrain() on it returns false and
\* removes nothing whatever the neighbour holds.
C14_CollapsedCellIsFrozen ==
    [][\A pos \in Pos :
          Cardinality(cells[pos]) = 1
              => /\ cells'[pos] = cells[pos]
                 /\ \A other_cell \in SUBSET (1 .. Len(tiles)), k \in 1 .. 4 :
                      constrain(cells[pos], other_cell, Edges[k])
                          = [poss |-> cells[pos], changed |-> FALSE, panic |-> FALSE]]_vars

\* constrain() has been called on a grid where a cell holds one tile that no
\* tile of its non-empty neighbour connects to.
C14_Witness ==
    /\ last.op = "constrain"
    /\ ~ panicked
    /\ \E pos \in Pos, k \in 1 .. 4 :
         /\ HasNeighbour(pos[1], pos[2], Edges[k])
         /\ Cardinality(cells[pos]) = 1
         /\ cells[Neighbour(pos[1], pos[2], Edges[k])] # {}
         /\ ~ Supported(pos, Edges[k])

\* C15: finished is false on the freshly constructed grid, and a step() made
\* once finished is set leaves it set and leaves every cell as it was.
C15_FinishedIsMonotone ==
    /\ last.op = "new" => ~ finished
    /\ [][finished => (finished' /\ cells' = cells)]_vars

\* A step() has been made after the one that set finished, on a grid of
\* several cells.
C15_Witness ==
    /\ finished
    /\ extra >= 1
    /\ last.op = "step" /\ last.did = "finish"
    /\ width * height >= 2
    /\ Len(tiles) >= 2

RECURSIVE SumOver(_, _)
\* The number of tiles held by the cells of g at the positions ps.
SumOver(g, ps) ==
    IF ps = {} THEN 0
    ELSE LET p == CHOOSE q \in ps : TRUE
         IN  Cardinality(g[p]) + SumOver(g, ps \ {p})

\* The number of tiles held by the whole of grid g.
Candidates(g) == SumOver(g, Pos)

RECURSIVE SweepsUntilExit(_, _)
\* The sweeps propagate() makes from grid g, the one it exits on included, as
\* long as each sweep it goes on from has removed a tile; 0 when a sweep that
\* removed none is gone on from, or when more than budget sweeps are gone on
\* from.
SweepsUntilExit(g, budget) ==
    LET s == Sweep(g)
    IN  IF s.panic \/ ~ s.constrained THEN 1
        ELSE IF budget = 0 \/ Candidates(s.cells) >= Candidates(g) THEN 0
        ELSE LET rest == SweepsUntilExit(s.cells, budget - 1)
             IN  IF rest = 0 THEN 0 ELSE rest + 1

\* C16: from every grid state propagate()'s loop exits, after at most as many
\* sweeps as the grid holds tiles and one more: every sweep it goes on from has
\* removed a tile, and no sweep adds one.
C16_PropagateTerminates ==
    LET n == SweepsUntilExit(cells, Candidates(cells))
    IN  n >= 1 /\ n <= Candidates(cells) + 1

\* A grid from which propagate() goes on from two sweeps and exits on a third.
C16_Witness ==
    /\ ~ panicked
    /\ SweepsUntilExit(cells, Candidates(cells)) >= 3

\* C17: on a grid of at least 1x1 over at least one tile, a run none of whose
\* cells ever becomes empty reaches finished, and each of its steps but the
\* one that sets finished leaves fewer cells of two tiles or more.  (On such a
\* grid step() fails on an empty set only: a failed run is one where a cell,
\* or the copy of it that propagate() works on, became empty.)
C17_RunTerminates ==
    /\ <>(finished \/ panicked \/ width = 0 \/ height = 0 \/ Len(tiles) = 0
              \/ ~ NoEmptyCell)
    /\ [][(last'.op = "step" /\ last'.did # "finish" /\ Len(tiles) >= 1
              /\ width >= 1 /\ height >= 1 /\ \A pos \in Pos : cells'[pos] # {})
            => Cardinality({ pos \in Pos : Cardinality(cells'[pos]) >= 2 })
                   < Cardinality(Uncollapsed)]_vars

\* A run over three tiles of different images has set finished after
\* collapsing cell upon cell of a grid of three cells or more.
C17_Witness ==
    /\ finished
    /\ NoEmptyCell
    /\ width * height >= 3
    /\ Len(tiles) = 3 /\ DistinctImages
    /\ steps >= 3

\* C18: no step() of a run from a freshly constructed grid hands an empty cell
\* to collapse() (where choose() has nothing to draw and unwrap() fails).
C18_CollapseNeverOnEmptyCell ==
    last.op = "step" => last.did # "choose panic"

\* C19: no step() of a run evaluates entropy() or is_collapsed() on an empty
\* set.  The scan of step() evaluates them on every cell of the grid, and the
\* sweep after the one that emptied a cell evaluates them on that cell: the
\* subtraction is made on an empty set when step() starts from or leaves a grid
\* with an empty cell, or fails on the subtraction itself.
C19_EntropyNeverOnEmptySet ==
    /\ last.op = "step" => (NoEmptyCell /\ last.did # "entropy panic")
    /\ panicked => last.did # "collapse"

\* C20: on a grid of width 0 or height 0 the first step() sets finished and
\* does not fail.
C20_ZeroSizeGridFinishes ==
    ((width = 0 \/ height = 0) /\ steps >= 1) => (finished /\ ~ panicked)

====
